---- MODULE Spec2Model ----
(***************************************************************************)
(* Model of backend/app.py: a Flask service with GET /health and POST /ocr. *)
(*                                                                         *)
(* Three specifications share the module:                                  *)
(*   SpecText   - the text assembly of extract_text (lines 204-252), one   *)
(*                loop iteration per step, over bounded OCR results;       *)
(*   Spec       - POST /ocr handled by concurrent worker threads sharing   *)
(*                the upload folder and pytesseract's tesseract_cmd;       *)
(*   SpecHealth - GET /health and check_and_configure_tesseract over the   *)
(*                environments the subprocess calls can meet.              *)
(*                                                                         *)
(* Characters of OCR text are code points; file names are sequences of     *)
(* one-character strings.                                                  *)
(***************************************************************************)
EXTENDS Integers, Sequences, FiniteSets, TLC

VARIABLES
    \* ---- text assembly (SpecText) ----
    ocr_data,           \* the OCR result: a sequence of rows (text, conf, line_num)
    i,                  \* rows consumed by the first loop
    current_line_num,
    line_text,
    lines,
    j,                  \* lines consumed by the cleaning loop
    cleaned_lines,
    tpc,                \* position in the text assembly
    text_resp,          \* the 200 response body once built
    \* ---- POST /ocr (Spec) ----
    req,                \* each request's upload: has_image, filename, content
    pc,                 \* each handler's position
    filepath,           \* the handler's local filepath (None until line 158)
    img,                \* the image cv2.imread returned
    chk,                \* what check_and_configure_tesseract returned to the handler
    resp,               \* the responses the handler has returned, in order
    trace,              \* the handler's calls into the OS and pytesseract, with outcomes
    files,              \* the upload folder: file name -> content
    tesseract_cmd,      \* pytesseract.pytesseract.tesseract_cmd (module global)
    \* ---- GET /health (SpecHealth) ----
    h_env,              \* what the subprocess calls of the last check met
    h_resp              \* the last /health response

text_vars == <<ocr_data, i, current_line_num, line_text, lines, j, cleaned_lines,
               tpc, text_resp>>

req_vars == <<req, pc, filepath, img, chk, resp, trace, files>>

health_vars == <<h_env, h_resp>>

vars == <<text_vars, req_vars, tesseract_cmd, health_vars>>

----------------------------------------------------------------------------
(* Bounds *)

MaxRows == 4

----------------------------------------------------------------------------
(* Characters and strings *)

SPACE == <<32>>

\* str.isspace() on the code points used here: TAB..CR, FS..US, SPACE, NEL, NBSP
IsSpace(c) == c \in {9, 10, 11, 12, 13, 28, 29, 30, 31, 32, 133, 160}

\* the characters kept by re.sub(r'[^\x20-\x7E]', '', line)
IsPrintableAscii(c) == c >= 32 /\ c <= 126

\* \w of a str pattern: alphanumerics and underscore (233 is e-acute)
IsWordChar(c) ==
    \/ c \in 48..57
    \/ c \in 65..90
    \/ c \in 97..122
    \/ c = 95
    \/ c = 233

RECURSIVE lstrip(_)
lstrip(s) ==
    IF s = <<>> THEN <<>>
    ELSE IF IsSpace(Head(s)) THEN lstrip(Tail(s)) ELSE s

RECURSIVE rstrip(_)
rstrip(s) ==
    IF s = <<>> THEN <<>>
    ELSE IF IsSpace(s[Len(s)]) THEN rstrip(SubSeq(s, 1, Len(s) - 1)) ELSE s

\* str.strip()
strip(s) == rstrip(lstrip(s))

\* re.sub(r'[^\x20-\x7E]', '', line)
RECURSIVE RemoveNonPrintable(_)
RemoveNonPrintable(s) ==
    IF s = <<>> THEN <<>>
    ELSE IF IsPrintableAscii(Head(s))
         THEN <<Head(s)>> \o RemoveNonPrintable(Tail(s))
         ELSE RemoveNonPrintable(Tail(s))

\* re.match(r'^[^\w\s]+$', s): s is non-empty and every character is neither a
\* word character nor whitespace ($ also matches before one trailing newline,
\* which a stripped string never has)
MatchesOnlyPunctuation(s) ==
    /\ s # <<>>
    /\ \A k \in 1..Len(s) : ~IsWordChar(s[k]) /\ ~IsSpace(s[k])

----------------------------------------------------------------------------
(* The OCR result rows.  pytesseract's DICT output holds parallel lists     *)
(* text / conf / line_num; a row here is one index of them.  conf is a      *)
(* number, or (older pytesseract) a string: kind tells which.               *)

IntConf(n) == [kind |-> "int", val |-> n]
StrConf(n) == [kind |-> "str", val |-> n]

Row(t, c, l) == [text |-> t, conf |-> c, line_num |-> l]

\* Tesseract's text column holds one whitespace-free token, possibly padded or
\* blank; line_num is >= 0 and is 0 on the block/paragraph/line rows.
Rows ==
    {  Row(<<>>, StrConf(-1), 0),                \* structural row, conf '-1'
       Row(<<32>>, IntConf(95), 1),              \* blank token
       Row(<<97, 98, 99>>, IntConf(96), 1),      \* "abc"
       Row(<<120>>, StrConf(30), 2),             \* "x" at the threshold, conf '30'
       Row(<<9, 121, 32>>, IntConf(60), 1),      \* "\ty " padded token
       Row(<<233>>, IntConf(90), 1),             \* e-acute
       Row(<<33, 63, 46>>, IntConf(80), 2),      \* "!?."
       Row(<<100, 101>>, IntConf(29), 2),        \* "de" below the threshold
       Row(<<122>>, IntConf(-1), 1) }            \* "z" with numeric conf -1

RECURSIVE SeqsUpTo(_, _)
SeqsUpTo(S, n) ==
    IF n = 0 THEN {<<>>}
    ELSE LET shorter == SeqsUpTo(S, n - 1)
         IN shorter \cup {Append(s, x) : s \in {t \in shorter : Len(t) = n - 1}, x \in S}

OcrResults == SeqsUpTo(Rows, MaxRows)

----------------------------------------------------------------------------
(* extract_text, lines 204-252: text assembly *)

\* int(ocr_data['conf'][i]) if ocr_data['conf'][i] != '-1' else 0
Confidence(c) == IF ~(c.kind = "str" /\ c.val = -1) THEN c.val ELSE 0

\* LoopBody without line 222: current_line_num is never updated
LoopBody_KeepLineNum(st, row) ==
    LET word == strip(row.text)
        confidence == Confidence(row.conf)
    IN IF word = <<>> \/ confidence < 30
       THEN st
       ELSE IF row.line_num # st.current_line_num
            THEN [lines |-> IF st.line_text # <<>>
                            THEN Append(st.lines, strip(st.line_text))
                            ELSE st.lines,
                  line_text |-> word,
                  current_line_num |-> st.current_line_num]
            ELSE [st EXCEPT !.line_text = st.line_text \o SPACE \o word]

\* the body of "for i in range(len(ocr_data['text']))" on one row
LoopBody(st, row) ==
    LET word == strip(row.text)
        confidence == Confidence(row.conf)
    IN IF word = <<>> \/ confidence < 30
       THEN st
       ELSE IF row.line_num # st.current_line_num
            THEN [lines |-> IF st.line_text # <<>>
                            THEN Append(st.lines, strip(st.line_text))
                            ELSE st.lines,
                  line_text |-> word,
                  current_line_num |-> row.line_num]
            ELSE [st EXCEPT !.line_text = st.line_text \o SPACE \o word]

\* Flush without lines 226-227: the last line is never appended
Flush_Forgotten(st) == st.lines

\* "if line_text: lines.append(line_text.strip())" after the loop
Flush(st) ==
    IF st.line_text # <<>> THEN Append(st.lines, strip(st.line_text)) ELSE st.lines

\* CleanBody appending cleaned_line without the strip of line 236
CleanBody_Unstripped(cl, line) ==
    LET cleaned_line == RemoveNonPrintable(line)
    IN IF Len(strip(cleaned_line)) > 2 /\ ~MatchesOnlyPunctuation(strip(cleaned_line))
       THEN Append(cl, cleaned_line)
       ELSE cl

\* the body of "for line in lines" on one line
CleanBody(cl, line) ==
    LET cleaned_line == RemoveNonPrintable(line)
    IN IF Len(strip(cleaned_line)) > 2 /\ ~MatchesOnlyPunctuation(strip(cleaned_line))
       THEN Append(cl, strip(cleaned_line))
       ELSE cl

\* the body of the 200 response
SuccessResponse(cl) ==
    [code |-> 200, status |-> "success", lines |-> cl, total_lines |-> Len(cl)]

NoResponse == [code |-> 0]

----------------------------------------------------------------------------
(* File names: sequences of one-character strings *)

LOWERCASE == <<"a","b","c","d","e","f","g","h","i","j","k","l","m",
               "n","o","p","q","r","s","t","u","v","w","x","y","z">>
UPPERCASE == <<"A","B","C","D","E","F","G","H","I","J","K","L","M",
               "N","O","P","Q","R","S","T","U","V","W","X","Y","Z">>
DIGITS == {"0","1","2","3","4","5","6","7","8","9"}

CharsOf(s) == {s[k] : k \in 1..Len(s)}

\* str.lower() on one character
Lower(c) ==
    IF c \in CharsOf(UPPERCASE)
    THEN LOWERCASE[CHOOSE k \in 1..Len(UPPERCASE) : UPPERCASE[k] = c]
    ELSE c

LowerStr(s) == [k \in 1..Len(s) |-> Lower(s[k])]

ALLOWED_EXTENSIONS ==
    { <<"p","n","g">>, <<"j","p","g">>, <<"j","p","e","g">>, <<"g","i","f">>,
      <<"b","m","p">>, <<"t","i","f","f">>, <<"w","e","b","p">> }

\* filename.rsplit('.', 1)[1] for a filename holding a '.'
RECURSIVE AfterLastDot(_)
AfterLastDot(s) ==
    IF "." \in CharsOf(Tail(s)) THEN AfterLastDot(Tail(s))
    ELSE IF Head(s) = "." THEN Tail(s) ELSE AfterLastDot(Tail(s))

allowed_file(filename) ==
    "." \in CharsOf(filename) /\ LowerStr(AfterLastDot(filename)) \in ALLOWED_EXTENSIONS

\* werkzeug.utils.secure_filename on ASCII names (POSIX): path separators
\* become blanks, blank-separated pieces are joined by '_', characters outside
\* [A-Za-z0-9_.-] are removed, leading and trailing '.' and '_' are stripped
RECURSIVE SepToBlank(_)
SepToBlank(s) ==
    IF s = <<>> THEN <<>>
    ELSE <<IF Head(s) = "/" THEN " " ELSE Head(s)>> \o SepToBlank(Tail(s))

RECURSIVE JoinBlanks(_, _)
JoinBlanks(s, started) ==
    IF s = <<>> THEN <<>>
    ELSE IF Head(s) = " "
         THEN IF started /\ CharsOf(Tail(s)) \ {" "} # {}
                    /\ (Tail(s) = <<>> \/ Head(Tail(s)) # " ")
              THEN <<"_">> \o JoinBlanks(Tail(s), started)
              ELSE JoinBlanks(Tail(s), started)
         ELSE <<Head(s)>> \o JoinBlanks(Tail(s), TRUE)

\* [A-Za-z0-9_.-]
SafeChars == CharsOf(LOWERCASE) \cup CharsOf(UPPERCASE) \cup DIGITS \cup {"_", ".", "-"}

IsSafeChar(c) == c \in SafeChars

RECURSIVE KeepSafe(_)
KeepSafe(s) ==
    IF s = <<>> THEN <<>>
    ELSE IF IsSafeChar(Head(s)) THEN <<Head(s)>> \o KeepSafe(Tail(s))
         ELSE KeepSafe(Tail(s))

RECURSIVE StripDots(_)
StripDots(s) ==
    IF s = <<>> THEN <<>>
    ELSE IF Head(s) \in {".", "_"} THEN StripDots(Tail(s))
    ELSE IF s[Len(s)] \in {".", "_"} THEN StripDots(SubSeq(s, 1, Len(s) - 1))
    ELSE s

secure_filename(filename) == StripDots(KeepSafe(JoinBlanks(SepToBlank(filename), FALSE)))

\* lines 154-158: the path the upload is saved under, inside UPLOAD_FOLDER
SavePath(filename) ==
    IF secure_filename(filename) = <<>>
    THEN <<"i","m","a","g","e",".","p","n","g">>
    ELSE secure_filename(filename)

----------------------------------------------------------------------------
(* check_and_configure_tesseract, lines 31-70 *)

\* what subprocess.run([cmd, '--version'], ...) can do: exit with a return
\* code after printing some whitespace-separated tokens on stdout, or raise
Exited(rc, ntok) == [kind |-> "exit", returncode |-> rc, stdout_tokens |-> ntok]
RunRaised(e) == [kind |-> e, returncode |-> 0, stdout_tokens |-> 0]

Runs ==
    { Exited(0, 2), Exited(0, 0), Exited(0, 1), Exited(1, 0),
      RunRaised("FileNotFoundError"), RunRaised("TimeoutExpired"), RunRaised("Exception") }

DEFAULT_CMD == <<"tesseract">>

possible_paths ==
    << <<"usr", "bin", "tesseract">>,
       <<"usr", "local", "bin", "tesseract">>,
       <<"opt", "homebrew", "bin", "tesseract">>,
       <<"usr", "share", "tesseract-ocr", "4.00", "tessdata">> >>

\* a candidate path: does it exist, and what does running it do
Candidate(e, r) == [exists |-> e, run |-> r]

CandidateStates ==
    { Candidate(FALSE, RunRaised("FileNotFoundError")),
      Candidate(TRUE, Exited(0, 2)),
      Candidate(TRUE, Exited(1, 0)),
      Candidate(TRUE, RunRaised("Exception")) }

\* path.endswith('tesseract') on the candidate paths
EndsWithTesseract(path) == path[Len(path)] = "tesseract"

\* the environments a check can meet; the tessdata directory is never run
CheckEnvs ==
    [ run : Runs,
      cand : {f \in [1..Len(possible_paths) -> CandidateStates] :
                 \A k \in 1..Len(possible_paths) :
                     ~EndsWithTesseract(possible_paths[k]) =>
                         f[k].run = RunRaised(IF f[k].exists THEN "Exception"
                                              ELSE "FileNotFoundError")} ]

\* lines 33-45: TRUE when the first try block returns True.  The log line 38
\* evaluates result.stdout.split()[1] whenever stdout holds any token, which
\* raises IndexError on a single token; "except Exception" swallows it.
PathTry(run) ==
    /\ run.kind = "exit"
    /\ run.returncode = 0
    /\ (run.stdout_tokens = 0 \/ run.stdout_tokens >= 2)

\* lines 55-70: the loop over possible_paths from index k on
RECURSIVE TryPaths(_, _, _)
TryPaths(cand, k, cmd) ==
    IF k > Len(possible_paths) THEN [ok |-> FALSE, cmd |-> cmd]
    ELSE IF cand[k].exists /\ EndsWithTesseract(possible_paths[k])
         THEN IF cand[k].run.kind = "exit" /\ cand[k].run.returncode = 0
              THEN [ok |-> TRUE, cmd |-> possible_paths[k]]
              ELSE TryPaths(cand, k + 1, possible_paths[k])
         ELSE TryPaths(cand, k + 1, cmd)

\* the return value, and tesseract_cmd afterwards
check_and_configure_tesseract(env, cmd) ==
    IF PathTry(env.run) THEN [ok |-> TRUE, cmd |-> cmd]
    ELSE TryPaths(env.cand, 1, cmd)

\* the values tesseract_cmd can hold
Commands == {DEFAULT_CMD} \cup {possible_paths[k] : k \in 1..Len(possible_paths)}

\* what a check can return and leave in tesseract_cmd, over all environments
CheckResults ==
    [cmd \in Commands |-> {check_and_configure_tesseract(env, cmd) : env \in CheckEnvs}]

----------------------------------------------------------------------------
(* GET /health, lines 96-118 *)

NOT_FOUND == <<"Not found">>

\* the 200 body; nothing in the try block raises once the module has loaded
HealthResponse(available, cmd) ==
    [code |-> 200,
     status |-> IF available THEN "healthy" ELSE "partial",
     tesseract_available |-> available,
     tesseract_cmd |-> IF available THEN cmd ELSE NOT_FOUND]

NoEnv == [run |-> RunRaised("none"), cand |-> <<>>]

HealthIdle ==
    /\ h_env = NoEnv
    /\ h_resp = NoResponse

health ==
    \E env \in CheckEnvs :
        LET c == check_and_configure_tesseract(env, tesseract_cmd)
        IN /\ tesseract_cmd' = c.cmd
           /\ h_env' = env
           /\ h_resp' = HealthResponse(c.ok, c.cmd)
           /\ UNCHANGED <<text_vars, req_vars>>

----------------------------------------------------------------------------
(* POST /ocr, lines 120-281 *)

\* the two worker threads of the development server
Requests == {"r1", "r2"}

None == <<>>

FileNames == {<<>>, <<"a">>, <<"a",".","t","x","t">>, <<"a",".","p","n","g">>,
              <<"/","a",".","p","n","g">>, <<"b",".","P","N","G">>}

\* what an upload can hold: two readable images and bytes cv2 cannot decode
Contents == {"imgA", "imgB", "corrupt"}

NoFilePart == [has_image |-> FALSE, filename |-> <<>>, content |-> "none"]

Uploads ==
    {NoFilePart} \cup [has_image : {TRUE}, filename : FileNames, content : Contents]

\* what Tesseract reads off each readable image
OcrOf(image) ==
    IF image = "imgA"
    THEN << Row(<<>>, StrConf(-1), 0),
            Row(<<97, 98, 99>>, IntConf(96), 1),
            Row(<<120>>, StrConf(30), 1) >>
    ELSE << Row(<<113, 114>>, IntConf(91), 1),
            Row(<<115>>, IntConf(88), 1),
            Row(<<33, 63, 46>>, IntConf(80), 2) >>

RECURSIVE AssembleAll(_, _)
AssembleAll(st, data) ==
    IF data = <<>> THEN st ELSE AssembleAll(LoopBody(st, Head(data)), Tail(data))

RECURSIVE CleanAll(_, _)
CleanAll(cl, ls) ==
    IF ls = <<>> THEN cl ELSE CleanAll(CleanBody(cl, Head(ls)), Tail(ls))

\* lines 204-236 on a whole OCR result
ExtractLines(data) ==
    CleanAll(<<>>, Flush(AssembleAll([lines |-> <<>>, line_text |-> <<>>,
                                      current_line_num |-> -1], data)))

ErrorResponse(code, error) == [code |-> code, error |-> error]

\* Gate with the extension check moved before the filename check
Gate_TypeFirst(available, upload) ==
    IF ~available
    THEN ErrorResponse(500, "Tesseract OCR not available on server")
    ELSE IF ~upload.has_image
    THEN ErrorResponse(400, "No file part")
    ELSE IF ~allowed_file(upload.filename)
    THEN ErrorResponse(400, "Invalid file type. Allowed: png, jpg, jpeg, gif, bmp, tiff, webp")
    ELSE IF upload.filename = <<>>
    THEN ErrorResponse(400, "No file selected")
    ELSE NoResponse

\* Gate with the request validations moved before the Tesseract check
Gate_ValidateFirst(available, upload) ==
    IF ~upload.has_image
    THEN ErrorResponse(400, "No file part")
    ELSE IF upload.filename = <<>>
    THEN ErrorResponse(400, "No file selected")
    ELSE IF ~allowed_file(upload.filename)
    THEN ErrorResponse(400, "Invalid file type. Allowed: png, jpg, jpeg, gif, bmp, tiff, webp")
    ELSE IF ~available
    THEN ErrorResponse(500, "Tesseract OCR not available on server")
    ELSE NoResponse

\* lines 129-151: the response of the first failing check, NoResponse when
\* the request passes them all
Gate(available, upload) ==
    IF ~available
    THEN ErrorResponse(500, "Tesseract OCR not available on server")
    ELSE IF ~upload.has_image
    THEN ErrorResponse(400, "No file part")
    ELSE IF upload.filename = <<>>
    THEN ErrorResponse(400, "No file selected")
    ELSE IF ~allowed_file(upload.filename)
    THEN ErrorResponse(400, "Invalid file type. Allowed: png, jpg, jpeg, gif, bmp, tiff, webp")
    ELSE NoResponse

\* AfterOcr with the fallback call outside the except block
AfterOcr_AlwaysFallback(out) == "fallback"

\* lines 195-202: where the handler goes after the first image_to_data call
AfterOcr(out) == IF out = "ok" THEN "cleanup" ELSE "fallback"

\* ExceptClause whose TesseractError body lacks the "error" key
ExceptClause_NoErrorKey(exc) ==
    IF exc = "TesseractNotFoundError"
    THEN ErrorResponse(500, "Tesseract OCR not found on server")
    ELSE IF exc = "TesseractError"
    THEN [code |-> 500, details |-> "Tesseract encountered an error during processing"]
    ELSE NoResponse

\* the clauses of lines 254-281 by exception type: the response returned at
\* once, or NoResponse when the generic clause goes on to its cleanup
ExceptClause(exc) ==
    IF exc = "TesseractNotFoundError"
    THEN ErrorResponse(500, "Tesseract OCR not found on server")
    ELSE IF exc = "TesseractError"
    THEN ErrorResponse(500, "OCR processing failed")
    ELSE NoResponse

\* lines 154-158 and 204-236 on the uploads of the model, tabulated
SavedAs == [f \in FileNames |-> SavePath(f)]

ReadLines == [image \in Contents \ {"corrupt"} |-> ExtractLines(OcrOf(image))]

FilePaths == {SavedAs[f] : f \in {g \in FileNames : allowed_file(g)}}

Absent == "absent"

Event(op, out) == [op |-> op, out |-> out]

ReqIdle ==
    /\ req = [r \in Requests |-> NoFilePart]
    /\ pc = [r \in Requests |-> "idle"]
    /\ filepath = [r \in Requests |-> None]
    /\ img = [r \in Requests |-> "none"]
    /\ chk = [r \in Requests |-> "not run"]
    /\ resp = [r \in Requests |-> <<>>]
    /\ trace = [r \in Requests |-> <<>>]
    /\ files = [p \in FilePaths |-> Absent]

Init ==
    /\ req \in [Requests -> Uploads]
    /\ pc = [r \in Requests |-> "begin"]
    /\ filepath = [r \in Requests |-> None]
    /\ img = [r \in Requests |-> "none"]
    /\ chk = [r \in Requests |-> "not run"]
    /\ resp = [r \in Requests |-> <<>>]
    /\ trace = [r \in Requests |-> <<>>]
    /\ files = [p \in FilePaths |-> Absent]
    /\ tesseract_cmd = DEFAULT_CMD
    /\ HealthIdle
    /\ ocr_data = <<>>
    /\ i = 0
    /\ current_line_num = -1
    /\ line_text = <<>>
    /\ lines = <<>>
    /\ j = 0
    /\ cleaned_lines = <<>>
    /\ tpc = "idle"
    /\ text_resp = NoResponse

Idle == <<text_vars, health_vars>>

\* the handler returns a response
Return(r, response) ==
    /\ resp' = [resp EXCEPT ![r] = Append(@, response)]
    /\ pc' = [pc EXCEPT ![r] = "done"]

Goto(r, label) ==
    /\ pc' = [pc EXCEPT ![r] = label]
    /\ UNCHANGED resp

Log(r, op, out) == trace' = [trace EXCEPT ![r] = Append(@, Event(op, out))]

Exists(path) == files[path] # Absent

\* lines 123-151: makedirs, the Tesseract check, the three validations
Begin(r) ==
    /\ pc[r] = "begin"
    /\ \E mk \in {"ok", "OSError"}, c \in CheckResults[tesseract_cmd] :
           IF mk # "ok"
           THEN /\ Log(r, "makedirs", mk)
                /\ Goto(r, "except")
                /\ UNCHANGED <<chk, tesseract_cmd>>
           ELSE LET answer == Gate(c.ok, req[r])
                IN /\ Log(r, "makedirs", mk)
                   /\ tesseract_cmd' = c.cmd
                   /\ chk' = [chk EXCEPT ![r] = IF c.ok THEN "available" ELSE "unavailable"]
                   /\ IF answer # NoResponse THEN Return(r, answer) ELSE Goto(r, "save")
    /\ UNCHANGED <<req, filepath, img, files, Idle>>

\* file.save(filepath): writes the upload, or raises having written nothing
\* or a truncated file
SaveOutcomes == {"ok", "raised, no file", "raised, truncated"}

SaveFile(fs, path, content, out) ==
    IF out = "ok" THEN [fs EXCEPT ![path] = content]
    ELSE IF out = "raised, truncated" THEN [fs EXCEPT ![path] = "corrupt"]
    ELSE fs

\* lines 154-160
Save(r) ==
    /\ pc[r] = "save"
    /\ filepath' = [filepath EXCEPT ![r] = SavedAs[req[r].filename]]
    /\ \E out \in SaveOutcomes :
           /\ Log(r, "save", out)
           /\ files' = SaveFile(files, SavedAs[req[r].filename], req[r].content, out)
           /\ Goto(r, IF out = "ok" THEN "exists" ELSE "except")
    /\ UNCHANGED <<req, img, chk, tesseract_cmd, Idle>>

\* lines 163-165
CheckSaved(r) ==
    /\ pc[r] = "exists"
    /\ IF ~Exists(filepath[r])
       THEN Return(r, ErrorResponse(500, "File save failed"))
       ELSE Goto(r, "imread")
    /\ UNCHANGED <<req, filepath, img, chk, trace, files, tesseract_cmd, Idle>>

\* lines 169-187: cv2.imread gives None for a missing or undecodable file;
\* the preprocessing of a decoded image touches nothing shared
Imread(r) ==
    /\ pc[r] = "imread"
    /\ Log(r, "imread", files[filepath[r]])
    /\ IF files[filepath[r]] \in {Absent, "corrupt"}
       THEN /\ Goto(r, "invalid")
            /\ UNCHANGED img
       ELSE /\ img' = [img EXCEPT ![r] = files[filepath[r]]]
            /\ Goto(r, "ocr")
    /\ UNCHANGED <<req, filepath, chk, files, tesseract_cmd, Idle>>

\* os.remove(filepath): FileNotFoundError when the file is gone, and it can
\* fail on a file that is there (permissions, a busy file)
RemoveOutcomes(path) ==
    IF Exists(path) THEN {"ok", "OSError"} ELSE {"FileNotFoundError"}

RemoveFile(fs, path, out) == IF out = "ok" THEN [fs EXCEPT ![path] = Absent] ELSE fs

Remove(r, out) ==
    /\ Log(r, "remove", out)
    /\ files' = RemoveFile(files, filepath[r], out)

\* line 173
InvalidExists(r) ==
    /\ pc[r] = "invalid"
    /\ IF Exists(filepath[r])
       THEN Goto(r, "invalid_remove")
       ELSE Return(r, ErrorResponse(400, "Invalid image file or corrupted"))
    /\ UNCHANGED <<req, filepath, img, chk, trace, files, tesseract_cmd, Idle>>

\* lines 174-175: a failing os.remove here is caught by line 266
InvalidRemove(r) ==
    /\ pc[r] = "invalid_remove"
    /\ \E out \in RemoveOutcomes(filepath[r]) :
           /\ Remove(r, out)
           /\ IF out = "ok"
              THEN Return(r, ErrorResponse(400, "Invalid image file or corrupted"))
              ELSE Goto(r, "except")
    /\ UNCHANGED <<req, filepath, img, chk, tesseract_cmd, Idle>>

OcrOutcomes == {"ok", "TesseractNotFoundError", "TesseractError", "Exception"}

\* lines 195-199: image_to_data with the custom configuration; any exception
\* leads to the fallback call
Ocr(r) ==
    /\ pc[r] = "ocr"
    /\ \E out \in OcrOutcomes :
           /\ Log(r, "image_to_data", out)
           /\ Goto(r, AfterOcr(out))
    /\ UNCHANGED <<req, filepath, img, chk, files, tesseract_cmd, Idle>>

\* lines 200-202 and 254-266: image_to_data without configuration; what it
\* raises leaves the inner try and meets the outer except clauses, of which
\* the two Tesseract ones return at once
OcrFallback(r) ==
    /\ pc[r] = "fallback"
    /\ \E out \in OcrOutcomes :
           /\ Log(r, "image_to_data", out)
           /\ IF out = "ok" THEN Goto(r, "cleanup")
              ELSE IF ExceptClause(out) # NoResponse
              THEN Return(r, ExceptClause(out))
              ELSE Goto(r, "except")
    /\ UNCHANGED <<req, filepath, img, chk, files, tesseract_cmd, Idle>>

\* lines 204-240: the text assembly touches nothing shared; then line 240
CleanupExists(r) ==
    /\ pc[r] = "cleanup"
    /\ IF Exists(filepath[r])
       THEN Goto(r, "cleanup_remove")
       ELSE Return(r, SuccessResponse(ReadLines[img[r]]))
    /\ UNCHANGED <<req, filepath, img, chk, trace, files, tesseract_cmd, Idle>>

\* lines 241-252: a failing os.remove is logged and the 200 is returned
CleanupRemove(r) ==
    /\ pc[r] = "cleanup_remove"
    /\ \E out \in RemoveOutcomes(filepath[r]) :
           /\ Remove(r, out)
           /\ Return(r, SuccessResponse(ReadLines[img[r]]))
    /\ UNCHANGED <<req, filepath, img, chk, tesseract_cmd, Idle>>

\* lines 266-272
Except(r) ==
    /\ pc[r] = "except"
    /\ IF filepath[r] # None /\ Exists(filepath[r])
       THEN Goto(r, "except_remove")
       ELSE Return(r, ErrorResponse(500, "Processing failed"))
    /\ UNCHANGED <<req, filepath, img, chk, trace, files, tesseract_cmd, Idle>>

\* lines 273-281
ExceptRemove(r) ==
    /\ pc[r] = "except_remove"
    /\ \E out \in RemoveOutcomes(filepath[r]) :
           /\ Remove(r, out)
           /\ Return(r, ErrorResponse(500, "Processing failed"))
    /\ UNCHANGED <<req, filepath, img, chk, tesseract_cmd, Idle>>

Step(r) ==
    \/ Begin(r)
    \/ Save(r)
    \/ CheckSaved(r)
    \/ Imread(r)
    \/ InvalidExists(r)
    \/ InvalidRemove(r)
    \/ Ocr(r)
    \/ OcrFallback(r)
    \/ CleanupExists(r)
    \/ CleanupRemove(r)
    \/ Except(r)
    \/ ExceptRemove(r)

Next == \E r \in Requests : Step(r)

Spec == Init /\ [][Next]_vars

----------------------------------------------------------------------------
(* Specification of GET /health alone *)

HealthInit ==
    /\ ReqIdle
    /\ tesseract_cmd = DEFAULT_CMD
    /\ HealthIdle
    /\ ocr_data = <<>>
    /\ i = 0
    /\ current_line_num = -1
    /\ line_text = <<>>
    /\ lines = <<>>
    /\ j = 0
    /\ cleaned_lines = <<>>
    /\ tpc = "idle"
    /\ text_resp = NoResponse

HealthNext == health

SpecHealth == HealthInit /\ [][HealthNext]_vars

----------------------------------------------------------------------------
(* Specification of the text assembly alone *)

TextInit ==
    /\ ocr_data \in OcrResults
    /\ i = 0
    /\ current_line_num = -1
    /\ line_text = <<>>
    /\ lines = <<>>
    /\ j = 0
    /\ cleaned_lines = <<>>
    /\ tpc = "assemble"
    /\ text_resp = NoResponse
    /\ ReqIdle
    /\ tesseract_cmd = DEFAULT_CMD
    /\ HealthIdle

AssembleStep ==
    /\ tpc = "assemble"
    /\ i < Len(ocr_data)
    /\ LET st == LoopBody([lines |-> lines, line_text |-> line_text,
                           current_line_num |-> current_line_num], ocr_data[i + 1])
       IN /\ lines' = st.lines
          /\ line_text' = st.line_text
          /\ current_line_num' = st.current_line_num
    /\ i' = i + 1
    /\ UNCHANGED <<ocr_data, j, cleaned_lines, tpc, text_resp, req_vars, tesseract_cmd, health_vars>>

AssembleFlush ==
    /\ tpc = "assemble"
    /\ i = Len(ocr_data)
    /\ lines' = Flush([lines |-> lines, line_text |-> line_text,
                       current_line_num |-> current_line_num])
    /\ tpc' = "clean"
    /\ UNCHANGED <<ocr_data, i, current_line_num, line_text, j, cleaned_lines, text_resp,
                   req_vars, tesseract_cmd, health_vars>>

CleanStep ==
    /\ tpc = "clean"
    /\ j < Len(lines)
    /\ cleaned_lines' = CleanBody(cleaned_lines, lines[j + 1])
    /\ j' = j + 1
    /\ UNCHANGED <<ocr_data, i, current_line_num, line_text, lines, tpc, text_resp,
                   req_vars, tesseract_cmd, health_vars>>

Respond200 ==
    /\ tpc = "clean"
    /\ j = Len(lines)
    /\ text_resp' = SuccessResponse(cleaned_lines)
    /\ tpc' = "done"
    /\ UNCHANGED <<ocr_data, i, current_line_num, line_text, lines, j, cleaned_lines,
                   req_vars, tesseract_cmd, health_vars>>

TextNext ==
    \/ AssembleStep
    \/ AssembleFlush
    \/ CleanStep
    \/ Respond200

SpecText == TextInit /\ [][TextNext]_vars

----------------------------------------------------------------------------
(* Vocabulary of the text-assembly properties, stated on positions of the   *)
(* OCR result rather than by the loops above.                               *)

NonSpaceAt(s) == {k \in 1..Len(s) : ~IsSpace(s[k])}

SetMin(S) == CHOOSE x \in S : \A y \in S : x <= y
SetMax(S) == CHOOSE x \in S : \A y \in S : x >= y

\* s without its leading and trailing whitespace
Trimmed(s) ==
    IF NonSpaceAt(s) = {} THEN <<>>
    ELSE SubSeq(s, SetMin(NonSpaceAt(s)), SetMax(NonSpaceAt(s)))

\* a row contributes a word: non-empty after strip, confidence >= 30
Accepted(row) == NonSpaceAt(row.text) # {} /\ row.conf.val >= 30

\* the positions of the accepted rows among the first n rows, in order
AcceptedAt(data, n) == {k \in 1..n : Accepted(data[k])}

Nth(S, m) == CHOOSE k \in S : Cardinality({x \in S : x < k}) = m - 1

AcceptedRows(data, n) ==
    [m \in 1..Cardinality(AcceptedAt(data, n)) |-> data[Nth(AcceptedAt(data, n), m)]]

AcceptedWords(data, n) ==
    [m \in 1..Cardinality(AcceptedAt(data, n)) |-> Trimmed(AcceptedRows(data, n)[m].text)]

\* the words of a line: its maximal space-free pieces
RECURSIVE SplitWords(_)
SplitWords(s) ==
    LET sp == {k \in 1..Len(s) : s[k] = 32}
    IN IF sp = {} THEN <<s>>
       ELSE <<SubSeq(s, 1, SetMin(sp) - 1)>> \o SplitWords(SubSeq(s, SetMin(sp) + 1, Len(s)))

RECURSIVE Flat(_)
Flat(ls) == IF ls = <<>> THEN <<>> ELSE SplitWords(Head(ls)) \o Flat(Tail(ls))

\* the line being built counts as a line once it holds a word
Pending == IF line_text # <<>> THEN <<line_text>> ELSE <<>>

\* the assembled line that holds the m-th word of Flat(ls)
LineIndexOf(ls, m) ==
    CHOOSE k \in 1..Len(ls) :
        /\ Len(Flat(SubSeq(ls, 1, k - 1))) < m
        /\ m <= Len(Flat(SubSeq(ls, 1, k)))

Assembled == tpc # "assemble"

----------------------------------------------------------------------------
\* C4: the words of the assembled lines, in order, are exactly the accepted
\* rows' stripped texts, each once and in the original order (rows with conf
\* '-1' or below 30, or blank text, contribute nothing); this holds after every
\* loop iteration for the lines built so far, and an iteration on a skipped row
\* changes neither current_line_num nor the line being built nor lines.
C4_WordsKept ==
    /\ tpc = "assemble" => Flat(lines \o Pending) = AcceptedWords(ocr_data, i)
    /\ Assembled => Flat(lines) = AcceptedWords(ocr_data, Len(ocr_data))

C4_SkipStep ==
    (tpc = "assemble" /\ i < Len(ocr_data) /\ ~Accepted(ocr_data[i + 1]))
        => UNCHANGED <<current_line_num, line_text, lines>>

C4_AcceptedSubsequence == [](C4_WordsKept) /\ [][C4_SkipStep]_vars

\* C4 witness: assembly finished on a result holding a skipped row with
\* confidence '-1', a skipped low-confidence row and two accepted rows
C4_Witness ==
    /\ Assembled
    /\ Len(Flat(lines)) >= 2
    /\ \E k \in 1..Len(ocr_data) : ocr_data[k].conf = StrConf(-1)
    /\ \E k \in 1..Len(ocr_data) :
           ocr_data[k].conf.kind = "int" /\ ocr_data[k].conf.val < 30
           /\ NonSpaceAt(ocr_data[k].text) # {}

----------------------------------------------------------------------------
\* line_num of the m-th accepted row
LineNumOf(m) == AcceptedRows(ocr_data, Len(ocr_data))[m].line_num

NumAccepted == Cardinality(AcceptedAt(ocr_data, Len(ocr_data)))

WordsAccountedFor == Len(Flat(lines)) = NumAccepted

\* C3 (as claimed): two accepted words are in the same assembled line exactly
\* when they carry the same line_num, also when the line_num recurs after a
\* different one.
C3_GroupedByLineNum ==
    (Assembled /\ WordsAccountedFor) =>
        \A m, n \in 1..NumAccepted :
            (LineNumOf(m) = LineNumOf(n)) <=> (LineIndexOf(lines, m) = LineIndexOf(lines, n))

\* C3 (amended): an assembled line never holds two line_num values, and two
\* accepted words that follow each other (skipped rows between them or not)
\* are in the same line exactly when they carry the same line_num: the lines
\* are the maximal runs of equal line_num.
C3_GroupedByRuns ==
    Assembled =>
        /\ WordsAccountedFor
        /\ \A m, n \in 1..NumAccepted :
               (LineIndexOf(lines, m) = LineIndexOf(lines, n)) => (LineNumOf(m) = LineNumOf(n))
        /\ \A m \in 1..(NumAccepted - 1) :
               (LineNumOf(m) = LineNumOf(m + 1))
                   <=> (LineIndexOf(lines, m) = LineIndexOf(lines, m + 1))

\* C3 witness: a line_num recurs after a different one, with a skipped row
\* in between, and two neighbouring words share a line
C3_Witness ==
    /\ Assembled
    /\ NumAccepted >= 3
    /\ \E m \in 1..(NumAccepted - 2) :
           LineNumOf(m) = LineNumOf(m + 2) /\ LineNumOf(m) # LineNumOf(m + 1)
    /\ \E k \in 1..(Len(ocr_data) - 1) :
           ~Accepted(ocr_data[k]) /\ AcceptedAt(ocr_data, k) # {} /\ Accepted(ocr_data[k + 1])
    /\ Len(lines) = 3

----------------------------------------------------------------------------
\* what a line of the response must look like
WellFormedLine(s) ==
    /\ \A k \in 1..Len(s) : s[k] >= 32 /\ s[k] <= 126
    /\ s # <<>> => s[1] # 32 /\ s[Len(s)] # 32
    /\ Len(s) > 2
    /\ \E k \in 1..Len(s) : IsWordChar(s[k]) \/ IsSpace(s[k])

\* a line as it would be returned: printable ASCII only, then trimmed
Returned(line) ==
    Trimmed([m \in 1..Cardinality({k \in 1..Len(line) : line[k] >= 32 /\ line[k] <= 126})
                |-> line[Nth({k \in 1..Len(line) : line[k] >= 32 /\ line[k] <= 126}, m)]])

SurvivorsAt(ls, n) == {k \in 1..n : WellFormedLine(Returned(ls[k]))}

Survivors(ls, n) ==
    [m \in 1..Cardinality(SurvivorsAt(ls, n)) |-> Returned(ls[Nth(SurvivorsAt(ls, n), m)])]

\* C5: every returned line is printable ASCII, has no leading or trailing
\* space, is longer than 2 characters and is not punctuation only; the
\* returned lines are the assembled lines that survive, in their order; and
\* total_lines is the length of lines.
C5_CleanLines ==
    /\ \A k \in 1..Len(cleaned_lines) : WellFormedLine(cleaned_lines[k])
    /\ tpc = "clean" => cleaned_lines = Survivors(lines, j)
    /\ tpc = "done" =>
           /\ text_resp.code = 200
           /\ text_resp.status = "success"
           /\ text_resp.lines = Survivors(lines, Len(lines))
           /\ text_resp.total_lines = Len(text_resp.lines)

\* C5 witness: a response that kept a line whose non-ASCII word was removed
\* and dropped another line
C5_Witness ==
    /\ tpc = "done"
    /\ text_resp.total_lines >= 1
    /\ text_resp.total_lines < Len(lines)
    /\ \E k \in 1..Len(lines) :
           /\ WellFormedLine(Returned(lines[k]))
           /\ Returned(lines[k]) # lines[k]

----------------------------------------------------------------------------
(* Vocabulary of the request properties *)

EventsOf(r, op) == {k \in 1..Len(trace[r]) : trace[r][k].op = op}

OcrCalls(r) == Cardinality(EventsOf(r, "image_to_data"))

Wrote(r) == \E k \in EventsOf(r, "save") : trace[r][k].out # "raised, no file"

Done(r) == pc[r] = "done"

PcOrder == <<"begin", "save", "exists", "imread", "invalid", "invalid_remove", "ocr",
             "fallback", "cleanup", "cleanup_remove", "except", "except_remove", "done">>

Position(label) == CHOOSE k \in 1..Len(PcOrder) : PcOrder[k] = label

Fields(response) == DOMAIN response

\* the error a malformed upload must get, "none" for a well-formed one:
\* no file part, then an empty filename, then a filename without '.' or with
\* a suffix after the last '.' that is not an allowed extension in any case
Malformed(upload) ==
    LET f == upload.filename
        dots == {k \in 1..Len(f) : f[k] = "."}
    IN IF ~upload.has_image THEN "No file part"
       ELSE IF Len(f) = 0 THEN "No file selected"
       ELSE IF dots = {} \/ LowerStr(SubSeq(f, SetMax(dots) + 1, Len(f))) \notin ALLOWED_EXTENSIONS
       THEN "Invalid file type. Allowed: png, jpg, jpeg, gif, bmp, tiff, webp"
       ELSE "none"

----------------------------------------------------------------------------
\* C1: a handler returns at most one response, and exactly one once it has
\* finished; the response is a 200 carrying status "success", lines and
\* total_lines, or a 400 or 500 carrying error; a handler that has not
\* finished always has a next step, and every step moves it forward through
\* the handler, so it finishes.
C1_Responses ==
    \A r \in Requests :
        /\ Len(resp[r]) = (IF Done(r) THEN 1 ELSE 0)
        /\ \A k \in 1..Len(resp[r]) :
               /\ resp[r][k].code \in {200, 400, 500}
               /\ resp[r][k].code = 200 =>
                      /\ {"status", "lines", "total_lines"} \subseteq Fields(resp[r][k])
                      /\ resp[r][k].status = "success"
               /\ resp[r][k].code # 200 => "error" \in Fields(resp[r][k])
        /\ ~Done(r) => ENABLED Step(r)

C1_Forward ==
    \A r \in Requests :
        pc'[r] # pc[r] => Position(pc'[r]) > Position(pc[r])

C1_OneResponse == [](C1_Responses) /\ [][C1_Forward]_vars

\* C1 witness: one request answered 200, the other answered 500 after both
\* image_to_data calls raised TesseractError
C1_Witness ==
    \E r, q \in Requests :
        /\ Done(r) /\ Done(q)
        /\ resp[r][1].code = 200
        /\ resp[q] = <<ErrorResponse(500, "OCR processing failed")>>
        /\ OcrCalls(q) = 2

----------------------------------------------------------------------------
\* C2 (as claimed): a request that reached the OCR step has invoked
\* image_to_data exactly once when it finishes.
C2_ExactlyOneCall ==
    \A r \in Requests : (Done(r) /\ OcrCalls(r) >= 1) => OcrCalls(r) = 1

\* C2 (amended): a request past the OCR step has invoked image_to_data once
\* if that invocation succeeded and twice if it raised (the second time
\* without the custom configuration), never more; before the OCR step it has
\* not invoked it.
C2_OneCallOrFallback ==
    \A r \in Requests :
        LET first == trace[r][SetMin(EventsOf(r, "image_to_data"))].out
        IN /\ Position(pc[r]) <= Position("ocr") => OcrCalls(r) = 0
           /\ pc[r] = "fallback" => OcrCalls(r) = 1 /\ first # "ok"
           /\ OcrCalls(r) <= 2
           /\ (Position(pc[r]) > Position("fallback") /\ OcrCalls(r) >= 1) =>
                  (OcrCalls(r) = 1 <=> first = "ok")

\* C2 witness: a request answered 200 whose first invocation raised
C2_Witness ==
    \E r \in Requests :
        /\ Done(r)
        /\ resp[r][1].code = 200
        /\ OcrCalls(r) = 2

----------------------------------------------------------------------------
----------------------------------------------------------------------------
\* C8 (as claimed): once a request that saved its upload has been answered,
\* the saved file is gone, whatever path the handler took, provided no
\* os.remove of the handler failed (and no other request wrote a file).
C8_UploadRemoved ==
    \A r \in Requests :
        ( /\ Done(r)
          /\ \E k \in EventsOf(r, "save") : trace[r][k].out = "ok"
          /\ \A k \in EventsOf(r, "remove") : trace[r][k].out = "ok"
          /\ \A q \in Requests \ {r} : ~Wrote(q) )
        => files[filepath[r]] = Absent

----------------------------------------------------------------------------
\* no call of any handler into the OS or Tesseract failed by itself (an
\* os.remove that finds the file gone is not such a failure)
NoFault ==
    \A q \in Requests : \A k \in 1..Len(trace[q]) :
        /\ trace[q][k].op \in {"makedirs", "save", "image_to_data"} => trace[q][k].out = "ok"
        /\ trace[q][k].op = "remove" => trace[q][k].out # "OSError"

\* C9 (as claimed): when nothing fails, a request is answered as if it were
\* alone: 200 with the lines of its own image, or "Invalid image file or
\* corrupted" when its own upload cannot be decoded, and never another error.
C9_NoInterference ==
    \A r \in Requests :
        (Done(r) /\ NoFault /\ chk[r] = "available" /\ Malformed(req[r]) = "none") =>
            /\ resp[r][1].code \in {200, 400}
            /\ resp[r][1].code = 200 =>
                   /\ req[r].content # "corrupt"
                   /\ resp[r][1].lines = ExtractLines(OcrOf(req[r].content))
            /\ resp[r][1] = ErrorResponse(400, "Invalid image file or corrupted") =>
                   req[r].content = "corrupt"
            /\ resp[r][1] # ErrorResponse(500, "File save failed")

----------------------------------------------------------------------------
\* C10: a request whose Tesseract check returned False is answered 500
\* "Tesseract OCR not available on server" whatever the upload, and its
\* handler saves nothing and invokes no OCR; a handler writes the upload only
\* after the check returned True and the upload passed the three validations,
\* and only handlers write to the upload folder.
C10_CheckGates ==
    /\ \A r \in Requests :
           /\ chk[r] = "unavailable" =>
                  /\ Done(r)
                  /\ resp[r] = <<ErrorResponse(500, "Tesseract OCR not available on server")>>
                  /\ filepath[r] = None
                  /\ EventsOf(r, "save") = {}
                  /\ OcrCalls(r) = 0
           /\ (EventsOf(r, "save") # {} \/ filepath[r] # None) =>
                  chk[r] = "available" /\ Malformed(req[r]) = "none"
    /\ \A p \in FilePaths :
           files[p] # Absent => \E r \in Requests : Wrote(r) /\ filepath[r] = p

\* C10 witness: a request without file part and one with a disallowed
\* extension were both answered 500 by the failed check
C10_Witness ==
    \E r, q \in Requests :
        /\ chk[r] = "unavailable" /\ chk[q] = "unavailable"
        /\ Malformed(req[r]) = "No file part"
        /\ req[q].filename = <<"a", ".", "t", "x", "t">>
        /\ resp[r][1].code = 500 /\ resp[q][1].code = 500

----------------------------------------------------------------------------
\* Tesseract is available in an environment: `tesseract --version` on PATH
\* exits 0, or a candidate path ending in 'tesseract' exists and its
\* --version exits 0
Available(env) ==
    \/ env.run.kind = "exit" /\ env.run.returncode = 0
    \/ \E k \in 1..Len(possible_paths) :
           /\ EndsWithTesseract(possible_paths[k])
           /\ env.cand[k].exists
           /\ env.cand[k].run.kind = "exit" /\ env.cand[k].run.returncode = 0

\* C7 (as claimed): /health answers 200 "healthy" with the configured command
\* exactly when Tesseract is available in that sense, and 200 "partial" with
\* "Not found" otherwise.
C7_HealthFaithful ==
    h_resp # NoResponse =>
        /\ h_resp.code = 200
        /\ Available(h_env) =>
               h_resp.status = "healthy" /\ h_resp.tesseract_cmd = tesseract_cmd
        /\ ~Available(h_env) =>
               h_resp.status = "partial" /\ h_resp.tesseract_cmd = NOT_FOUND

====
